---- MODULE Spec2Model ----
(***************************************************************************)
(* Flow-field simulation of src/main.rs (nannou sketch).                   *)
(*                                                                         *)
(* Numbers.  An f64 is modelled as an exact rational n/d in lowest terms,  *)
(* or one of the IEEE-754 specials NaN, +inf, -inf; the arithmetic below   *)
(* follows IEEE-754 on the specials (x/0, 0/0, inf-inf, 0*inf ...).        *)
(* Angles are measured in quadrants (pi/2 rad), so that PI is 2 and sin    *)
(* and cos are exact on the angles the quantised noise produces.           *)
(***************************************************************************)
EXTENDS Integers, Sequences, FiniteSets, TLC

(* ------------------------------ bounds -------------------------------- *)

\* number of starting points per axis (main.rs sets 64; scaled down)
POINT_COUNT == 2
\* at most MaxTicks calls of update
MaxTicks == 2
\* at most MaxResizes changes of the window size
MaxResizes == 1
\* the jitter generator yields JitterSteps distinct values in [0, POINT_DELTA)
JitterSteps == 2

(* ------------------------------- f64 ---------------------------------- *)

Abs(i) == IF i < 0 THEN -i ELSE i

RECURSIVE GCD(_, _)
GCD(a, b) == IF b = 0 THEN a ELSE GCD(b, a % b)

\* the rational n/d (d # 0) in lowest terms with a positive denominator
Reduced(n, d, g) ==
    IF d < 0 THEN [k |-> "fin", n |-> (-n) \div g, d |-> (-d) \div g]
    ELSE [k |-> "fin", n |-> n \div g, d |-> d \div g]

Fin(n, d) == Reduced(n, d, GCD(Abs(n), Abs(d)))

F(i) == [k |-> "fin", n |-> i, d |-> 1]
NaN == [k |-> "nan", n |-> 0, d |-> 1]
Inf(s) == [k |-> "inf", n |-> s, d |-> 1]

IsFinite(a) == a.k = "fin"
IsNaN(a) == a.k = "nan"
Sign(a) == IF a.n < 0 THEN -1 ELSE IF a.n > 0 THEN 1 ELSE 0

FNeg(a) == IF a.k = "nan" THEN NaN ELSE [a EXCEPT !.n = -a.n]

FAdd(a, b) ==
    CASE a.k = "nan" \/ b.k = "nan" -> NaN
      [] a.k = "inf" /\ b.k = "inf" -> IF a.n = b.n THEN a ELSE NaN
      [] a.k = "inf" -> a
      [] b.k = "inf" -> b
      [] OTHER -> Fin(a.n * b.d + b.n * a.d, a.d * b.d)

FSub(a, b) == FAdd(a, FNeg(b))

FMul(a, b) ==
    CASE a.k = "nan" \/ b.k = "nan" -> NaN
      [] a.k = "inf" \/ b.k = "inf" ->
            IF Sign(a) * Sign(b) = 0 THEN NaN ELSE Inf(Sign(a) * Sign(b))
      [] OTHER -> Fin(a.n * b.n, a.d * b.d)

\* the divisors of the program are never negative zero
FDiv(a, b) ==
    CASE a.k = "nan" \/ b.k = "nan" -> NaN
      [] a.k = "inf" /\ b.k = "inf" -> NaN
      [] a.k = "inf" -> Inf(IF Sign(b) < 0 THEN -a.n ELSE a.n)
      [] b.k = "inf" -> F(0)
      [] b.n = 0 -> IF a.n = 0 THEN NaN ELSE Inf(Sign(a))
      [] OTHER -> Fin(a.n * b.d, a.d * b.n)

FLess(a, b) == a.k = "fin" /\ b.k = "fin" /\ a.n * b.d < b.n * a.d
FLeq(a, b) == a.k = "fin" /\ b.k = "fin" /\ a.n * b.d <= b.n * a.d

Floor(a) == a.n \div a.d

\* f64::sin and f64::cos, on whole quadrants; NaN on a non-finite angle
Sin(a) ==
    IF a.k # "fin" THEN NaN
    ELSE CASE a.d = 1 /\ a.n % 4 = 0 -> F(0)
           [] a.d = 1 /\ a.n % 4 = 1 -> F(1)
           [] a.d = 1 /\ a.n % 4 = 2 -> F(0)
           [] a.d = 1 /\ a.n % 4 = 3 -> F(-1)

Cos(a) ==
    IF a.k # "fin" THEN NaN
    ELSE CASE a.d = 1 /\ a.n % 4 = 0 -> F(1)
           [] a.d = 1 /\ a.n % 4 = 1 -> F(0)
           [] a.d = 1 /\ a.n % 4 = 2 -> F(-1)
           [] a.d = 1 /\ a.n % 4 = 3 -> F(0)

\* std::f64::consts::PI, in quadrants
PI == F(2)

\* `as f32`: rounding to the nearest value of a coarser grid
F32Grid == 2 ^ 6
AsF32(a) ==
    IF a.k # "fin" THEN a
    ELSE Fin((2 * a.n * F32Grid + a.d) \div (2 * a.d), F32Grid)

(* ------------------------ program constants --------------------------- *)

POINT_DELTA == Fin(1, 10)
HEADING_NOISE_FACTOR == F(15)
HEADING_NOISE_MULTIPLIER == F(1)
COLOR_NOISE_FACTOR == F(1)
COLOR_NOISE_MULTIPLIER == Fin(11, 10)
VELOCITY_MULTIPLIER == Fin(1, 4)
POINT_SIZE == F(1)
SEED == 0

(* ------------------------------ Vector2 ------------------------------- *)

Vec(x, y) == [x |-> x, y |-> y]

\* impl ops::Add<Vector2> for Vector2
VAdd(a, b) == Vec(FAdd(a.x, b.x), FAdd(a.y, b.y))

\* impl ops::Mul<f64> for Vector2
VMul(a, s) == Vec(FMul(a.x, s), FMul(a.y, s))

\* impl ops::AddAssign<Vector2> for Vector2
VAddAssign(a, b) == Vec(FAdd(a.x, b.x), FAdd(a.y, b.y))

\* the square of Vector2::length
LengthSq(a) == FAdd(FMul(a.x, a.x), FMul(a.y, a.y))

Flow(pos, vel) == [pos |-> pos, vel |-> vel]

(* ---------------------- external collaborators ------------------------ *)

\* What Perlin::get returns on a point that is not finite is fixed by the
\* version of the noise crate the program is built with: NaN where the
\* sample is interpolated from the point, 0.0 where a surflet whose
\* attenuation fails the test `attn > 0.0` contributes nothing.
VARIABLE nan_sample

\* the sample off the lattice, in quarters within [-1, 1]: fixed by the
\* seed, the lattice cell (cx, cy) and the half of the cell on each axis
Gradient(seed, cx, cy, bx, by) ==
    Fin(((seed + 2 * cx + 3 * cy + 5 * bx + 7 * by + cx * cy) % 9) - 4, 4)

\* Perlin::get([u, v]) of the noise crate: a deterministic function of the
\* seed and the point, within [-1, 1], zero on the integer lattice
Perlin(seed, u, v) ==
    IF ~IsFinite(u) \/ ~IsFinite(v) THEN nan_sample
    ELSE IF u.d = 1 /\ v.d = 1 THEN F(0)
    ELSE Gradient(seed, Floor(u), Floor(v),
                  Floor(FMul(FSub(u, F(Floor(u))), F(2))),
                  Floor(FMul(FSub(v, F(Floor(v))), F(2))))

\* StdRng::seed_from_u64(seed): the generator's state is its seed and the
\* number of values drawn so far
SeedFromU64(seed) == [seed |-> seed, drawn |-> 0]

\* rng.gen_range(0.0..high): the next value of the stream, in [0, high)
GenRange(rng, high) ==
    [value |-> FMul(high, Fin((rng.seed * rng.seed + rng.seed * rng.drawn
                               + 3 * rng.drawn + (rng.drawn \div 2)) % JitterSteps,
                              JitterSteps)),
     rng |-> [rng EXCEPT !.drawn = rng.drawn + 1]]

\* app.window_rect(): the extents the host may report
Rect(x_end, y_end) == [x_end |-> x_end, y_end |-> y_end]
Rects == {Rect(2, 2), Rect(1, 2), Rect(0, 2), Rect(2, 0)}

\* std::time::SystemTime::now().elapsed().unwrap().as_nanos() as u64
TimeSeeds == {0, 1}

\* the durations Instant::elapsed may report to a handler
ElapsedTimes == {1, 2}

(* ------------------------------- state -------------------------------- *)

VARIABLES
    flow_field,  \* Model.flow_field: Vec<Vec<Flow>>, outer vector first
    noise,       \* Model.noise: the seed of the Perlin generator
    window,      \* the host's current window rect (x.end, y.end)
    model_rect,  \* x_end, y_end as model() read them
    draws,       \* the draw requests of the latest call of view, in order
    stdout,      \* the latest message a handler printed
    ticks,       \* calls of update so far
    resizes,     \* changes of the window size so far
    twin,        \* the grid a second run of the latest update ended in
    pending,     \* SpecOrder: cells the tick in progress has not reached
    start        \* the grid model() built; SpecOrder: the grid at the start
                 \* of the latest tick

vars == <<flow_field, noise, window, model_rect, draws, stdout, ticks, resizes,
          twin, pending, start, nan_sample>>

(* ------------------------------- model -------------------------------- *)

\* for y in 0..POINT_COUNT as usize
RowRange == 0..(POINT_COUNT - 1)

\* ColRange with a fault: the inclusive range 0..=POINT_COUNT
ColRangeInclusive == 0..POINT_COUNT

\* for x in 0..POINT_COUNT as usize
ColRange == 0..(POINT_COUNT - 1)

\* ModelFlow with a fault: the loop indices taken for each other
ModelFlowTransposed(x, y, rect, jx, jy) ==
    Flow(Vec(FMul(F(rect.x_end), FAdd(Fin(y, POINT_COUNT), jx)),
             FMul(F(rect.y_end), FAdd(Fin(x, POINT_COUNT), jy))),
         Vec(F(0), F(0)))

\* the Flow literal of model(): cell (x, y) with the jitters jx, jy
ModelFlow(x, y, rect, jx, jy) ==
    Flow(Vec(FMul(F(rect.x_end), FAdd(Fin(x, POINT_COUNT), jx)),
             FMul(F(rect.y_end), FAdd(Fin(y, POINT_COUNT), jy))),
         Vec(F(0), F(0)))

\* the inner loop of model(): pushes the flows of row y from column x on
RECURSIVE ModelRow(_, _, _, _, _)
ModelCell(x, y, rect, gx, gy, row) ==
    ModelRow(x + 1, y, rect, gy.rng,
             Append(row, ModelFlow(x, y, rect, gx.value, gy.value)))

ModelRow(x, y, rect, rng, row) ==
    IF x \notin ColRange THEN [row |-> row, rng |-> rng]
    ELSE ModelCell(x, y, rect, GenRange(rng, POINT_DELTA),
                   GenRange(GenRange(rng, POINT_DELTA).rng, POINT_DELTA), row)

\* the outer loop of model(): pushes the rows from row y on
RECURSIVE ModelRows(_, _, _, _)
PushRow(y, rect, r, field) == ModelRows(y + 1, rect, r.rng, Append(field, r.row))

ModelRows(y, rect, rng, field) ==
    IF y \notin RowRange THEN field
    ELSE PushRow(y, rect, ModelRow(0, y, rect, rng, <<>>), field)

\* let seed = if SEED == 0 { now } else { SEED }
ResolveSeed(now) == IF SEED = 0 THEN now ELSE SEED

\* `seed as u32`: the low 32 bits, taken in two halves of 16 bits
AsU32(n) == ((n \div (2 ^ 16)) % (2 ^ 16)) * (2 ^ 16) + (n % (2 ^ 16))

\* fn model: the Model built for the window rect and the time read
model(rect, now) ==
    LET seed == ResolveSeed(now)
    IN  [flow_field |-> ModelRows(0, rect, SeedFromU64(seed), <<>>),
         noise |-> AsU32(seed)]

(* ------------------------------- update ------------------------------- *)

\* Advance with a fault: the velocity accumulated (flow.vel += ..) instead of set
AdvanceAccumulating(flow, vel) ==
    Flow(VAddAssign(flow.pos, VMul(VAdd(flow.vel, vel), VELOCITY_MULTIPLIER)),
         VAdd(flow.vel, vel))

\* flow.vel = ..; flow.pos += flow.vel * VELOCITY_MULTIPLIER
Advance(flow, vel) == Flow(VAddAssign(flow.pos, VMul(vel, VELOCITY_MULTIPLIER)), vel)

\* Vector2 { x: noise_value.sin(), y: noise_value.cos() }
Heading(noise_value) == Vec(Sin(noise_value), Cos(noise_value))

\* UpdateFlow with a fault: the position advanced by the velocity of the tick
\* before, ahead of the new velocity being set
UpdateFlowStale(flow, seed, rect) ==
    Flow(VAddAssign(flow.pos, VMul(flow.vel, VELOCITY_MULTIPLIER)),
         Heading(FMul(Perlin(seed,
                             FMul(FDiv(flow.pos.x, F(rect.x_end)), HEADING_NOISE_FACTOR),
                             FMul(FDiv(flow.pos.y, F(rect.y_end)), HEADING_NOISE_FACTOR)),
                      FMul(FMul(HEADING_NOISE_MULTIPLIER, F(2)), PI))))

\* the loop body of update(): one flow, from its own state alone
UpdateFlow(flow, seed, rect) ==
    Advance(flow,
            Heading(FMul(Perlin(seed,
                                FMul(FDiv(flow.pos.x, F(rect.x_end)), HEADING_NOISE_FACTOR),
                                FMul(FDiv(flow.pos.y, F(rect.y_end)), HEADING_NOISE_FACTOR)),
                         FMul(FMul(HEADING_NOISE_MULTIPLIER, F(2)), PI))))

\* UpdateCell with a fault: the noise sampled at the position of the next flow
\* of the row
UpdateCellNeighbour(grid, r, c, seed, rect) ==
    [grid EXCEPT ![r][c] =
        Advance(grid[r][c],
                UpdateFlow(grid[r][(c % Len(grid[r])) + 1], seed, rect).vel)]

\* the loop body of update() on the flow at row r, column c of the grid
UpdateCell(grid, r, c, seed, rect) ==
    [grid EXCEPT ![r][c] = UpdateFlow(grid[r][c], seed, rect)]

\* for row in flow_field.iter_mut() { for flow in row.iter_mut() { .. } }
RECURSIVE UpdateLoop(_, _, _, _, _)
UpdateLoop(grid, r, c, seed, rect) ==
    IF r > Len(grid) THEN grid
    ELSE IF c > Len(grid[r]) THEN UpdateLoop(grid, r + 1, 1, seed, rect)
    ELSE UpdateLoop(UpdateCell(grid, r, c, seed, rect), r, c + 1, seed, rect)

\* the characters of format!("\rUpdate: {:.2?}", elapsed)
MessageChars(elapsed) == 9 + (IF elapsed < 10 THEN 6 ELSE 7)

\* update with a fault: the noise animated by the time the timer reports
updateTimed(grid, seed, rect, elapsed) ==
    [flow_field |-> UpdateLoop(grid, 1, 1, seed + elapsed, rect),
     message |-> [by |-> "Update", elapsed |-> elapsed,
                  pad |-> 20 - MessageChars(elapsed)]]

\* fn update: the grid and the message it ends with, for the rect read and
\* the time the timer reports
update(grid, seed, rect, elapsed) ==
    [flow_field |-> UpdateLoop(grid, 1, 1, seed, rect),
     message |-> [by |-> "Update", elapsed |-> elapsed,
                  pad |-> 20 - MessageChars(elapsed)]]

\* UpdateRect with a fault: the extents model() read, kept
CachedRect == model_rect

\* app.window_rect() as update() reads it
UpdateRect == window

(* -------------------------------- view -------------------------------- *)

\* nannou::color::hsl(((noise.get([x2, y2]) * COLOR_NOISE_MULTIPLIER + 1.0) / 2.0) as f32, 1.0, 0.5)
Hsl(sample) ==
    [hue |-> AsF32(FDiv(FAdd(FMul(sample, COLOR_NOISE_MULTIPLIER), F(1)), F(2))),
     saturation |-> F(1), lightness |-> Fin(1, 2)]

\* draw.ellipse().x_y(x as f32, y as f32).w_h(..).color(color), with x2 and y2
\* computed from x and y
Ellipse(x, y, seed, rect) ==
    [x |-> AsF32(x), y |-> AsF32(y),
     w |-> AsF32(FMul(F(1), POINT_SIZE)), h |-> AsF32(FMul(F(1), POINT_SIZE)),
     color |-> Hsl(Perlin(seed,
                          FMul(FDiv(x, F(rect.x_end)), COLOR_NOISE_FACTOR),
                          FMul(FDiv(y, F(rect.y_end)), COLOR_NOISE_FACTOR)))]

\* ViewFlow with a fault: the position not doubled before it is centred
ViewFlowUnscaled(flow, seed, rect) ==
    Ellipse(FSub(flow.pos.x, F(rect.x_end)), FSub(flow.pos.y, F(rect.y_end)), seed, rect)

\* the loop body of view(): the draw request of one flow
ViewFlow(flow, seed, rect) ==
    Ellipse(FSub(FMul(flow.pos.x, F(2)), F(rect.x_end)),
            FSub(FMul(flow.pos.y, F(2)), F(rect.y_end)), seed, rect)

\* for row in flow_field.iter() { for flow in row.iter() { .. } }
RECURSIVE ViewLoop(_, _, _, _, _, _)
ViewLoop(grid, r, c, seed, rect, out) ==
    IF r > Len(grid) THEN out
    ELSE IF c > Len(grid[r]) THEN ViewLoop(grid, r + 1, 1, seed, rect, out)
    ELSE ViewLoop(grid, r, c + 1, seed, rect,
                  Append(out, ViewFlow(grid[r][c], seed, rect)))

\* fn view: the draw requests and the message of one render pass
view(grid, seed, rect, elapsed) ==
    [draws |-> ViewLoop(grid, 1, 1, seed, rect, <<>>),
     message |-> [by |-> "Draw", elapsed |-> elapsed, pad |-> 0]]

\* app.window_rect() as view() reads it
ViewRect == window

(* ------------------------------ behaviour ----------------------------- *)

\* the state once nannou has called model()
Init ==
    \E rect \in Rects, now \in TimeSeeds :
        \E m \in {model(rect, now)} :
            /\ flow_field = m.flow_field
            /\ noise = m.noise
            /\ window = rect
            /\ model_rect = rect
            /\ draws = <<>>
            /\ stdout = [by |-> "", elapsed |-> 0, pad |-> 0]
            /\ ticks = 0
            /\ resizes = 0
            /\ twin = m.flow_field
            /\ pending = {}
            /\ start = m.flow_field
            /\ nan_sample \in {NaN, F(0)}

\* nannou calls update(); a second run from the same grid, seed and window
\* reads another time
Update ==
    /\ ticks < MaxTicks
    /\ \E elapsed \in ElapsedTimes :
          \E u \in {update(flow_field, noise, UpdateRect, elapsed)} :
              /\ flow_field' = u.flow_field
              /\ stdout' = u.message
    /\ \E other \in ElapsedTimes \ {stdout'.elapsed} :
          twin' = update(flow_field, noise, UpdateRect, other).flow_field
    /\ ticks' = ticks + 1
    /\ UNCHANGED <<nan_sample, noise, window, model_rect, draws, resizes, pending, start>>

\* nannou calls view()
View ==
    /\ \E elapsed \in ElapsedTimes :
          \E v \in {view(flow_field, noise, ViewRect, elapsed)} :
              /\ draws' = v.draws
              /\ stdout' = v.message
    /\ UNCHANGED <<nan_sample, flow_field, noise, window, model_rect, ticks, resizes, twin,
                   pending, start>>

\* the host resizes the window; no handler of the program runs
Resize ==
    /\ resizes < MaxResizes
    /\ \E rect \in Rects \ {window} : window' = rect
    /\ resizes' = resizes + 1
    /\ UNCHANGED <<nan_sample, flow_field, noise, model_rect, draws, stdout, ticks, twin,
                   pending, start>>

Next == Update \/ View \/ Resize

Spec == Init /\ [][Next]_vars

(* --------------------- the tick, one flow at a time ------------------- *)

\* the (row, column) indices of a grid, both from 1
Cells(grid) == UNION {{<<r, c>> : c \in 1..Len(grid[r])} : r \in 1..Len(grid)}

\* update() is entered: no flow has been reached yet
BeginTick ==
    /\ ticks < MaxTicks
    /\ pending = {}
    /\ pending' = Cells(flow_field)
    /\ start' = flow_field
    /\ UNCHANGED <<nan_sample, flow_field, noise, window, model_rect, draws, stdout, ticks,
                   resizes, twin>>

\* the loop body of update() runs on some flow not reached yet, in any order
UpdateOne ==
    /\ \E rc \in pending :
          /\ flow_field' = UpdateCell(flow_field, rc[1], rc[2], noise, UpdateRect)
          /\ pending' = pending \ {rc}
    /\ ticks' = IF pending' = {} THEN ticks + 1 ELSE ticks
    /\ UNCHANGED <<nan_sample, noise, window, model_rect, draws, stdout, resizes, twin, start>>

NextOrder == BeginTick \/ UpdateOne

SpecOrder == Init /\ [][NextOrder]_vars

(* ------------------------------ properties ---------------------------- *)

Zero == Vec(F(0), F(0))
IsUnit(v) == LengthSq(v) = F(1)
FiniteVec(v) == IsFinite(v.x) /\ IsFinite(v.y)
NaNVec(v) == IsNaN(v.x) /\ IsNaN(v.y)
Positive(rect) == rect.x_end > 0 /\ rect.y_end > 0

\* the tick rule as section 4.3 of the specification states it: the angle
\* from the position before the tick, the velocity from the angle, the
\* position from the old position and the new velocity
TickAngle(pos, seed, rect) ==
    FMul(Perlin(seed, FMul(FDiv(pos.x, F(rect.x_end)), HEADING_NOISE_FACTOR),
                      FMul(FDiv(pos.y, F(rect.y_end)), HEADING_NOISE_FACTOR)),
         FMul(HEADING_NOISE_MULTIPLIER, FMul(F(2), PI)))
TickVel(pos, seed, rect) ==
    Vec(Sin(TickAngle(pos, seed, rect)), Cos(TickAngle(pos, seed, rect)))
TickPos(pos, seed, rect) ==
    Vec(FAdd(pos.x, FMul(TickVel(pos, seed, rect).x, VELOCITY_MULTIPLIER)),
        FAdd(pos.y, FMul(TickVel(pos, seed, rect).y, VELOCITY_MULTIPLIER)))

\* the screen coordinates of section 4.4
ScreenX(pos, rect) == FSub(FMul(pos.x, F(2)), F(rect.x_end))
ScreenY(pos, rect) == FSub(FMul(pos.y, F(2)), F(rect.y_end))

\* C1: the grid has exactly POINT_COUNT rows of exactly POINT_COUNT flows,
\* in the state model() builds and after any sequence of ticks, render
\* passes and resizes.
C1_GridShape ==
    /\ Len(flow_field) = POINT_COUNT
    /\ \A r \in 1..Len(flow_field) : Len(flow_field[r]) = POINT_COUNT

C1_Witness ==
    /\ ticks = MaxTicks
    /\ Len(draws) = POINT_COUNT * POINT_COUNT
    /\ Cardinality(Cells(flow_field)) = POINT_COUNT * POINT_COUNT
    /\ flow_field # start

\* C2, as claimed: in every reachable state, from initialization onward,
\* every flow's velocity has length 1.
C2_UnitVelocityAlways ==
    \A rc \in Cells(flow_field) : IsUnit(flow_field[rc[1]][rc[2]].vel)

\* C2, amended: every velocity is (0, 0) in the state model() builds; a step
\* that is no tick leaves every velocity as it is; a tick sets the velocity
\* of a flow to a vector of length 1 when both window extents are positive
\* and the flow's position is finite, and to a vector of length 1 or to
\* (NaN, NaN) otherwise.
C2_UnitVelocityAfterTick ==
    /\ \A rc \in Cells(flow_field) : flow_field[rc[1]][rc[2]].vel = Zero
    /\ [][\A rc \in Cells(flow_field) :
            LET old == flow_field[rc[1]][rc[2]]
                new == flow_field'[rc[1]][rc[2]]
            IN  IF ticks' = ticks THEN new.vel = old.vel
                ELSE IF Positive(window) /\ FiniteVec(old.pos) THEN IsUnit(new.vel)
                ELSE IsUnit(new.vel) \/ NaNVec(new.vel)]_vars

C2_Witness ==
    /\ ticks = MaxTicks
    /\ Positive(window)
    /\ \A rc \in Cells(flow_field) : IsUnit(flow_field[rc[1]][rc[2]].vel)
    /\ \E rc \in Cells(flow_field) : flow_field[rc[1]][rc[2]].vel # Vec(F(0), F(1))

C4_TickRule ==
    [][ticks' = ticks + 1 =>
        \A rc \in Cells(flow_field) :
            LET old == flow_field[rc[1]][rc[2]]
                new == flow_field'[rc[1]][rc[2]]
            IN  /\ new.vel = TickVel(old.pos, noise, window)
                /\ new.pos = TickPos(old.pos, noise, window)]_vars

C4_Witness ==
    /\ ticks = MaxTicks
    /\ Positive(window)
    /\ \E rc \in Cells(flow_field) :
          LET f == flow_field[rc[1]][rc[2]]
          IN  /\ IsUnit(f.vel)
              /\ f.vel # TickVel(start[rc[1]][rc[2]].pos, noise, window)

\* C5: in the state model() builds, the flow at column col of row `row`
\* lies, on each axis of positive extent, in [base, base + extent *
\* POINT_DELTA), where base_x = x_end * col / POINT_COUNT and base_y =
\* y_end * row / POINT_COUNT.
C5_JitterBound ==
    (ticks = 0 /\ resizes = 0) =>
        \A rc \in Cells(flow_field) :
            LET pos == flow_field[rc[1]][rc[2]].pos
                base_x == FMul(F(window.x_end), Fin(rc[2] - 1, POINT_COUNT))
                base_y == FMul(F(window.y_end), Fin(rc[1] - 1, POINT_COUNT))
            IN  /\ window.x_end > 0 =>
                      /\ FLeq(base_x, pos.x)
                      /\ FLess(pos.x, FAdd(base_x, FMul(F(window.x_end), POINT_DELTA)))
                /\ window.y_end > 0 =>
                      /\ FLeq(base_y, pos.y)
                      /\ FLess(pos.y, FAdd(base_y, FMul(F(window.y_end), POINT_DELTA)))

C5_Witness ==
    /\ ticks = 0 /\ resizes = 0
    /\ window.x_end > 0 /\ window.y_end > 0 /\ window.x_end # window.y_end
    /\ \E rc \in Cells(flow_field) :
          flow_field[rc[1]][rc[2]].pos.x =
              FMul(F(window.x_end), Fin(rc[2] - 1, POINT_COUNT))
    /\ \E rc \in Cells(flow_field) :
          /\ rc[1] # rc[2]
          /\ FLess(FMul(F(window.x_end), Fin(rc[2] - 1, POINT_COUNT)),
                   flow_field[rc[1]][rc[2]].pos.x)

\* C6: a change of the window extents leaves the grid (every position and
\* velocity, and so the particle count) as it is; the tick and the render
\* pass that follow use the extents of the window as they are then, not
\* those model() read.
C6_ResizeTolerance ==
    [][/\ window' # window => flow_field' = flow_field
       /\ ticks' = ticks + 1 =>
            \A rc \in Cells(flow_field) :
                flow_field'[rc[1]][rc[2]].vel =
                    TickVel(flow_field[rc[1]][rc[2]].pos, noise', window')
       /\ (stdout'.by = "Draw" /\ ticks' = ticks /\ window' = window) =>
            \A rc \in Cells(flow_field) :
                LET d == draws'[(rc[1] - 1) * POINT_COUNT + rc[2]]
                IN  d.x = AsF32(ScreenX(flow_field'[rc[1]][rc[2]].pos, window'))]_vars

C6_Witness ==
    /\ resizes >= 1 /\ ticks = 1
    /\ Positive(window) /\ Positive(model_rect) /\ window # model_rect
    /\ \E rc \in Cells(flow_field) :
          /\ flow_field[rc[1]][rc[2]].vel = TickVel(start[rc[1]][rc[2]].pos, noise, window)
          /\ flow_field[rc[1]][rc[2]].vel # TickVel(start[rc[1]][rc[2]].pos, noise, model_rect)
    /\ Len(draws) > 0
    /\ draws[1].x = AsF32(ScreenX(flow_field[1][1].pos, window))
    /\ draws[1].x # AsF32(ScreenX(flow_field[1][1].pos, model_rect))

\* C7, as claimed: whatever extents the host reports, a zero extent
\* included, a tick divides by no zero (the divisors of its loop body are
\* the two window extents) and leaves every flow's position and velocity
\* finite.
C7_TickTotal ==
    [][ticks' = ticks + 1 =>
        /\ Cells(flow_field) # {} => (window.x_end # 0 /\ window.y_end # 0)
        /\ \A rc \in Cells(flow_field) :
              /\ FiniteVec(flow_field'[rc[1]][rc[2]].pos)
              /\ FiniteVec(flow_field'[rc[1]][rc[2]].vel)]_vars

\* C7: whichever noise crate the program is built with, a tick on a window
\* of zero extent divides by zero; where the crate returns NaN for the
\* point that results, every flow is left with a NaN velocity and position.
C7_ZeroExtentReached ==
    /\ ticks >= 1
    /\ ~Positive(window)
    /\ resizes = 0
    /\ nan_sample = NaN
    /\ \A rc \in Cells(flow_field) : NaNVec(flow_field[rc[1]][rc[2]].vel)

\* C9: a render pass issues POINT_COUNT * POINT_COUNT draw requests, the
\* request of the flow at (row, column) at place (row - 1) * POINT_COUNT +
\* column, at the screen coordinates (pos.x * 2 - x_end, pos.y * 2 - y_end)
\* as f32, with a colour fixed by the flow's position, the window extents
\* and the noise seed; it leaves the grid as it is.
C9_RenderSequence ==
    [][(stdout'.by = "Draw" /\ ticks' = ticks /\ window' = window) =>
        /\ flow_field' = flow_field
        /\ Len(draws') = POINT_COUNT * POINT_COUNT
        /\ \A rc \in Cells(flow_field) :
              LET d == draws'[(rc[1] - 1) * POINT_COUNT + rc[2]]
                  pos == flow_field[rc[1]][rc[2]].pos
              IN  /\ d.x = AsF32(ScreenX(pos, window))
                  /\ d.y = AsF32(ScreenY(pos, window))
                  /\ d.color.hue =
                        AsF32(FDiv(FAdd(FMul(Perlin(noise,
                            FMul(FDiv(ScreenX(pos, window), F(window.x_end)), COLOR_NOISE_FACTOR),
                            FMul(FDiv(ScreenY(pos, window), F(window.y_end)), COLOR_NOISE_FACTOR)),
                            COLOR_NOISE_MULTIPLIER), F(1)), F(2)))]_vars

C9_Witness ==
    /\ stdout.by = "Draw"
    /\ ticks >= 1
    /\ Positive(window)
    /\ Len(draws) = POINT_COUNT * POINT_COUNT
    /\ \E i \in 1..Len(draws), j \in 1..Len(draws) :
          i < j /\ draws[i].x # draws[j].x /\ draws[i].color.hue # draws[j].color.hue

\* C10: whatever the order in which a tick reaches the flows, a flow the
\* tick has reached is in the state the row-major loop of update() leaves
\* it in, and a flow it has not reached is as it was when the tick began.
C10_OrderIndependence ==
    (ticks > 0 \/ pending # {}) =>
        \A rc \in Cells(flow_field) :
            flow_field[rc[1]][rc[2]] =
                IF rc \in pending THEN start[rc[1]][rc[2]]
                ELSE UpdateLoop(start, 1, 1, noise, window)[rc[1]][rc[2]]

\* the tick has reached the last flow of the grid before the first
C10_Witness ==
    /\ ticks = MaxTicks - 1
    /\ Positive(window)
    /\ <<1, 1>> \in pending
    /\ <<POINT_COUNT, POINT_COUNT>> \notin pending
    /\ flow_field[POINT_COUNT][POINT_COUNT] # start[POINT_COUNT][POINT_COUNT]
    /\ flow_field[POINT_COUNT][POINT_COUNT] =
          UpdateLoop(start, 1, 1, noise, window)[POINT_COUNT][POINT_COUNT]

====
